---- MODULE Spec2Model ----
(***************************************************************************)
(* Model of the MolDockPipe per-item execution engine:                     *)
(*   Module 3  (SDF -> ligand PDBQT via Meeko)        stage "m3"           *)
(*   Module 4a (AutoDock Vina, CPU)                   stage "cpu"          *)
(*   Module 4b (Vina-GPU)                             stage "gpu"          *)
(* One stage process runs at a time against the shared manifest.csv.       *)
(*                                                                         *)
(* Encoding of the strings the scripts store in the manifest:              *)
(*   identifiers and paths  : a ligand is a number 1..n, 0 is ""           *)
(*   timestamps             : seconds of the clock (>= 1), 0 is ""         *)
(*   hashes                 : a number >= 1000, 0 is ""                    *)
(*   vina_score             : <<>> is "", <<h>> is the text of h/100       *)
(*   statuses, reasons, tool provenance : TLA+ strings                     *)
(***************************************************************************)
EXTENDS Integers, Sequences, FiniteSets, TLC

\* ------------------------------------------------------------------ bounds
\* ligands of the short runs (specification Spec)
NLigs == 2
\* ligands of the long run (specification SpecLong): past the first checkpoint
NLong == 51
\* identifiers of a manifest handed to a function applied on its own
NKeys == 3
\* "REMARK VINA RESULT:" lines of a file handed to a validator
MaxScores == 3
\* characters of a file stem handed to a function applied on its own
MaxStem == 2
\* len(DEFAULT_MODULE_PATTERNS)
NPatterns == 4
\* "if gcfg["thread"] < 1000"
MinThread == 1000
\* as_int(conf, "thread", 10000)
DefaultThread == 10000
\* distinct VinaConfig.txt texts / receptor contents the environment may install
NCfg == 2

\* ------------------------------------------------------- program constants
\* "if idx % 50 == 0" : periodic checkpoint
CheckpointEvery == 50
\* "path.stat().st_size < 200" : minimum size of a usable PDBQT
MinSize == 200
\* number of candidate commands run_meeko tries
NCandidates == 3

\* ------------------------------------------------------------------ fields
MANIFEST_FIELDS ==
    << "id","smiles","inchikey",
       "admet_status","admet_reason",
       "sdf_status","sdf_path","sdf_reason",
       "pdbqt_status","pdbqt_path","pdbqt_reason",
       "vina_status","vina_score","vina_pose","vina_reason",
       "config_hash","receptor_sha1","tools_rdkit","tools_meeko","tools_vina",
       "created_at","updated_at" >>

FieldSet == { MANIFEST_FIELDS[i] : i \in 1..Len(MANIFEST_FIELDS) }

\* fields whose text is encoded as a number (0 is the empty string)
NumFields == { "id", "sdf_path", "pdbqt_path", "vina_pose",
               "config_hash", "receptor_sha1", "created_at", "updated_at" }

\* the empty string of a field
EmptyOf(k) == IF k \in NumFields THEN 0 ELSE IF k = "vina_score" THEN <<>> ELSE ""

\* {k: "" for k in MANIFEST_FIELDS}
BlankRecord == [ k \in FieldSet |-> EmptyOf(k) ]

\* ------------------------------------------------------------------- files
\* A PDBQT file on disk: whether it exists, its size in bytes, whether its
\* text holds an ATOM/HETATM record, a TORSDOF line, and the scores (in
\* thousandths) of its "REMARK VINA RESULT:" lines, in file order.
\* readable: path.read_text() returns (it raises on a directory, on a file
\* the process may not read, on an I/O error).
NoFile ==
    [ exists |-> FALSE, size |-> 0, atom |-> FALSE, tors |-> FALSE, scores |-> <<>>,
      readable |-> FALSE ]

MkFile(sz, a, t, sc) ==
    [ exists |-> TRUE, size |-> sz, atom |-> a, tors |-> t, scores |-> sc,
      readable |-> TRUE ]

\* a prepared ligand as Module 2/3 leaves it
GoodLigand == MkFile(450, TRUE, TRUE, <<>>)
\* a ligand file cut short while being written
PartialLigand == MkFile(120, TRUE, FALSE, <<>>)
\* docking outputs: two poses that validate, one cut short
GoodPoseA == MkFile(900, TRUE, TRUE, << -7456, -8123, -6004 >>)
GoodPoseB == MkFile(700, TRUE, TRUE, << -5121 >>)
PartialPose == MkFile(150, TRUE, FALSE, <<>>)

\* min(scores)
RECURSIVE SeqMin(_)
SeqMin(s) ==
    IF Len(s) = 1 THEN s[1]
    ELSE LET m == SeqMin(Tail(s)) IN IF s[1] < m THEN s[1] ELSE m

\* f"{best:.2f}" : thousandths rounded to hundredths, as text
Fmt2(t) == IF t >= 0 THEN << (t + 5) \div 10 >> ELSE << -((5 - t) \div 10) >>

\* a ligand validator without the size threshold
pdbqt_is_valid_any_size(f) ==
    IF ~f.exists THEN FALSE
    ELSE IF ~f.readable THEN FALSE
    ELSE f.atom /\ f.tors

\* pdbqt_is_valid(path); "except Exception: return False" covers a failed read
pdbqt_is_valid(f) ==
    IF ~f.exists \/ f.size < MinSize THEN FALSE
    ELSE IF ~f.readable THEN FALSE
    ELSE f.atom /\ f.tors

\* vina_pose_is_valid(path)[0]
vina_pose_is_valid(f) ==
    IF ~f.exists \/ f.size < MinSize THEN FALSE
    ELSE IF ~f.readable THEN FALSE
    ELSE f.scores # <<>>

\* a best score that is the first score line of the file
best_score_first(f) == f.scores[1]

\* vina_pose_is_valid(path)[1], for a valid pose
best_score(f) == SeqMin(f.scores)

\* ---------------------------------------------------------------- hashing
\* Texts are numbered: 0 is the placeholder "{}" Module 3 hashes when no YAML
\* exists, 1.. are YAML texts, 10+c is VinaConfig.txt text c.  sha1(..)[:10]
\* is taken to be collision free on these few texts.
Sha1_10(text) == 1000 + text

\* sha1_of_file(receptor)
sha1_of_file(content) == 2000 + content


\* ------------------------------------------------------------------- state
VARIABLES
    \* the project directory
    ligset,         \* the ligand identifiers of this project
    mode,           \* which behaviours of the environment are explored:
                    \* "short", "stop", "item" or "long" (see the specifications)
    plan,           \* the stage processes of this behaviour, in order
    sdfDir,         \* identifiers i with a file 3D_Structures/<i>.sdf
    pdbqtFile,      \* prepared_ligands/<i>.pdbqt
    pdbqtTmp,       \* prepared_ligands/<i>.pdbqt.tmp
    poseFile,       \* results/<i>_out.pdbqt
    poseTmp,        \* results/<i>_out.pdbqt.tmp
    logs,           \* per ligand, the text of <i>_meeko.log, <i>_vina.log, <i>_vinagpu.log
    yamlCfg,        \* text of config/run.yml (0: the file does not exist)
    vinaCfg,        \* text of VinaConfig.txt (0: the file does not exist)
    receptor,       \* content of the receptor file (0: the file does not exist)
    binary,         \* the docking binary is in the project root
    call,           \* a function of the program applied on its own: [fn, arg, ret]
    peer,           \* a second stage process running at the same time
    orch,           \* the orchestrator (run_pipeline.py) and its checkpoint directory
    manifestFile,   \* state/manifest.csv
    summaryFile,    \* results/summary.csv
    leaderFile,     \* results/leaderboard.csv
    clock,          \* the wall clock, in seconds
    \* the running stage process
    pc,             \* "idle" (no process), "loop", "exec", "post", "save", "end"
    stage,          \* "m3", "cpu", "gpu" ("" when idle)
    work,           \* the sorted work list: <<[id, src]>>
    idx,            \* enumerate(..., 1) index of the current item
    manifest,       \* the in-memory manifest: key -> record
    chash,          \* config fingerprint of this run
    receptor_sha1,  \* receptor hash of this run
    created_ts,     \* created_ts = now_iso() of this run
    STOP_REQUESTED,
    HARD_STOP,
    cand,           \* run_meeko: index of the candidate command being tried
    proc,           \* the finished subprocess: [rc, out, wrote]; wrote: it wrote
                    \* to its output path before it exited
    retpc,          \* where save returns to: "loop" or "end"
    saveStep,       \* progress of write_csv on the manifest
    exc,            \* an exception is propagating through "finally"
    \* history (observation only)
    runs,           \* stage processes started so far
    invoked,        \* items of this run that took the tool path
    started,        \* number of items this run began to process
    finished,       \* number of items this run finished (record updated)
    nsaves,         \* completed save_manifest calls of this run
    nsumm,          \* completed summary/leaderboard writes of this run
    sigK,           \* value of started when the first SIGINT arrived (-1: none)
    loaded,         \* the manifest as load_manifest returned it
    exitKind,       \* how the last process ended
    lastRun,        \* the previous process: [stage, allDone, man]; stage "" once the inputs changed
    thisPrev,       \* lastRun as it was when this process started
    lastSaved       \* content of manifest.csv after the last completed save

envVars  == << ligset, mode, plan, sdfDir, yamlCfg, vinaCfg, receptor, binary, call,
               peer, orch >>
fileVars == << pdbqtFile, pdbqtTmp, poseFile, poseTmp, logs >>
viewVars == << summaryFile, leaderFile >>
procVars == << stage, work, chash, receptor_sha1, created_ts >>
flagVars == << STOP_REQUESTED, HARD_STOP >>
histVars == << runs, invoked, started, finished, nsaves, nsumm, sigK, loaded,
               exitKind, lastRun, thisPrev, lastSaved >>

vars == << ligset, mode, plan, sdfDir, pdbqtFile, pdbqtTmp, poseFile, poseTmp, logs,
           yamlCfg, vinaCfg, receptor, binary, call, peer, orch, manifestFile,
           summaryFile, leaderFile, clock,
           pc, stage, work, idx, manifest, chash, receptor_sha1, created_ts,
           STOP_REQUESTED, HARD_STOP, cand, proc, retpc, saveStep, exc,
           runs, invoked, started, finished, nsaves, nsumm, sigK, loaded,
           exitKind, lastRun, thisPrev, lastSaved >>

\* ------------------------------------------------------------ csv helpers
EmptyMap == [ k \in {} |-> BlankRecord ]

NoCsv == [ exists |-> FALSE, hdr |-> FALSE, rows |-> <<>> ]

\* the i-th smallest key: sorted(manifest.items())
KeyAt(D, i) == CHOOSE k \in D : Cardinality({ j \in D : j <= k }) = i

SortedKeys(D) == [ i \in 1..Cardinality(D) |-> KeyAt(D, i) ]

\* save_manifest: the rows handed to write_csv, sorted by key
ManifestRows(man) == [ i \in 1..Cardinality(DOMAIN man) |-> man[KeyAt(DOMAIN man, i)] ]

\* load_manifest: out[row["id"]] = row, a later row replacing an earlier one.
\* A missing file, or one without a header line, yields no rows.
load_manifest(file) ==
    IF ~file.exists \/ ~file.hdr THEN EmptyMap
    ELSE LET rows == file.rows
             ids  == { rows[i].id : i \in 1..Len(rows) }
             last(k) == CHOOSE i \in 1..Len(rows) :
                            /\ rows[i].id = k
                            /\ \A j \in (i+1)..Len(rows) : rows[j].id # k
         IN [ k \in ids |-> rows[last(k)] ]

\* manifest.get(lig_id, {k:"" for k in MANIFEST_FIELDS})
RecGet(man, k) == IF k \in DOMAIN man THEN man[k] ELSE BlankRecord

\* manifest[lig_id] = m
Put(man, k, m) == [ x \in (DOMAIN man) \cup {k} |-> IF x = k THEN m ELSE man[x] ]

\* dict.setdefault(key, v): stores v only when the key is missing
setdefault(m, key, v) ==
    IF key \in DOMAIN m THEN m
    ELSE [ x \in (DOMAIN m) \cup {key} |-> IF x = key THEN v ELSE m[x] ]

\* now_iso()
now_iso == clock

\* ------------------------------------------------------------ small parts
Docking == { "cpu", "gpu" }

NoProc == [ rc |-> 0, out |-> "", wrote |-> FALSE ]

NoLog == [ kind |-> "none", cand |-> 0, rc |-> 0 ]
SkipLog == [ kind |-> "skip", cand |-> 0, rc |-> 0 ]
CmdLog(c, rc) == [ kind |-> "cmd", cand |-> c, rc |-> rc ]

NoLogs == [ meeko |-> NoLog, vina |-> NoLog, vinagpu |-> NoLog ]

NoRun == [ stage |-> "", allDone |-> FALSE, man |-> EmptyMap ]

\* the log file a docking stage writes for a ligand
LogField(st) == IF st = "cpu" THEN "vina" ELSE "vinagpu"

\* str(vina_bin) / str(vgpu_bin)
ToolName(st) == IF st = "cpu" THEN "vina" ELSE "Vina-GPU"

\* config_hash() of Module 3: the YAML texts, or the placeholder
config_hash == Sha1_10(yamlCfg)

\* cfg["policy"]["skip_if_done"]: YAML text 2 is the one that turns it off
skip_if_done == yamlCfg # 2

\* load_runtime_config: chash of VinaConfig.txt
vina_config_hash == Sha1_10(10 + vinaCfg)

\* a discovery in which the file of the input directory wins over the
\* manifest's path
id2sdf_dir_first(man, dir, present) ==
    LET hinted == { k \in DOMAIN man : man[k].sdf_path # 0 /\ man[k].sdf_path \in present }
    IN [ k \in hinted \cup dir |-> IF k \in dir THEN k ELSE man[k].sdf_path ]

\* discover_sdf over a manifest, the stems dir of the "*.sdf" files of the
\* input directory (file k.sdf is path k) and the set of paths that exist:
\* the manifest's sdf_path when it is non-empty and exists, else the file of
\* the directory named after the identifier (setdefault)
id2sdf_of(man, dir, present) ==
    LET hinted == { k \in DOMAIN man : man[k].sdf_path # 0 /\ man[k].sdf_path \in present }
    IN [ k \in hinted \cup dir |-> IF k \in hinted THEN man[k].sdf_path ELSE k ]

\* discover_sdf: manifest sdf_path when the file exists, else 3D_Structures/<id>.sdf
discover_sdf(man) == id2sdf_of(man, sdfDir, sdfDir)

\* sorted(id2sdf.items())
SdfWork(id2sdf) ==
    [ i \in 1..Cardinality(DOMAIN id2sdf) |->
        [ id |-> KeyAt(DOMAIN id2sdf, i), src |-> id2sdf[KeyAt(DOMAIN id2sdf, i)] ] ]

\* sorted(DIR_PREP.glob("*.pdbqt")), lig_id = lig.stem.  The identifiers of
\* a stage process are numbers whose file names sort as they do (sorted_glob
\* below takes the file names as the strings they are).
LigWork ==
    LET present == { i \in ligset : pdbqtFile[i].exists }
    IN [ i \in 1..Cardinality(present) |->
           [ id |-> KeyAt(present, i), src |-> KeyAt(present, i) ] ]

\* the stage status field of a record
StatusOf(st, m) == IF st = "m3" THEN m.pdbqt_status ELSE m.vina_status

\* every item of the work list has a record whose stage status is DONE
AllDone(st, w, man) ==
    \A i \in 1..Len(w) : w[i].id \in DOMAIN man /\ StatusOf(st, man[w[i].id]) = "DONE"

\* no function is being applied on its own
NoCall == [ fn |-> "", arg |-> <<>>, ret |-> <<>> ]

\* no second stage process
NoPeer == [ pc |-> "none", manifest |-> EmptyMap, work |-> <<>>, idx |-> 0,
            saved |-> NoCsv ]

\* no orchestrator
NoOrch == [ pc |-> "none" ]

\* ------------------------------------------------------------------- Init
InitWith(L, md, plans) ==
    /\ ligset = L
    /\ mode = md
    /\ plan \in plans
    /\ sdfDir \in (IF md = "item" THEN { L, {} } ELSE { L })
    /\ pdbqtFile \in { [ i \in L |-> NoFile ], [ i \in L |-> GoodLigand ] }
    /\ pdbqtTmp = [ i \in L |-> NoFile ]
    /\ poseFile = [ i \in L |-> NoFile ]
    /\ poseTmp = [ i \in L |-> NoFile ]
    /\ logs = [ i \in L |-> NoLogs ]
    /\ yamlCfg = 0
    /\ vinaCfg \in (IF md = "peer" THEN { 0, 1 } ELSE { 1 })
    /\ receptor \in (IF md = "item" THEN { 0, 1 } ELSE { 1 })
    /\ binary \in (IF md = "item" THEN BOOLEAN ELSE { TRUE })
    /\ call = NoCall
    /\ peer = NoPeer
    /\ orch = NoOrch
    /\ manifestFile = NoCsv
    /\ summaryFile = NoCsv
    /\ leaderFile = NoCsv
    /\ clock = 1
    /\ pc = "idle"
    /\ stage = ""
    /\ work = <<>>
    /\ idx = 0
    /\ manifest = EmptyMap
    /\ chash = 0
    /\ receptor_sha1 = 0
    /\ created_ts = 0
    /\ STOP_REQUESTED = FALSE
    /\ HARD_STOP = FALSE
    /\ cand = 0
    /\ proc = NoProc
    /\ retpc = ""
    /\ saveStep = 0
    /\ exc = FALSE
    /\ runs = 0
    /\ invoked = {}
    /\ started = 0
    /\ finished = 0
    /\ nsaves = 0
    /\ nsumm = 0
    /\ sigK = -1
    /\ loaded = EmptyMap
    /\ exitKind = "none"
    /\ lastRun = NoRun
    /\ thisPrev = NoRun
    /\ lastSaved = NoCsv

Stages == { "m3", "cpu", "gpu" }

\* two consecutive stage processes, in every combination
TwoRuns == { << a, b >> : a \in Stages, b \in Stages }

\* a single stage process
OneRun == { << a >> : a \in Stages }

\* a docking process that follows a process of any stage
ThenDocking == { << a, b >> : a \in Stages, b \in { "cpu", "gpu" } }

\* short runs: two stage processes over NLigs ligands, nobody interrupting;
\* a tool succeeds or fails
Init == InitWith(1..NLigs, "short", TwoRuns)

\* two stage processes over NLigs ligands, with Ctrl+C at any moment
InitStop == InitWith(1..NLigs, "stop", ThenDocking)

\* one ligand, two stage processes, with everything a tool invocation can do
InitItem == InitWith({1}, "item", TwoRuns)

\* one long run over NLong ligands with a tool that succeeds
InitLong == InitWith(1..NLong, "long", OneRun)

longRun == mode = "long"

\* the next process of the plan is stage st
MayStart(st) == pc = "idle" /\ runs < Len(plan) /\ plan[runs + 1] = st

\* ------------------------------------------------------------- environment
\* Between two runs the user edits VinaConfig.txt, the receptor or run.yml
\* (one edit between two runs, after a run that ended by itself).
EditVinaConfig ==
    /\ pc = "idle" /\ ~longRun /\ runs >= 1 /\ runs < Len(plan) /\ lastRun.stage # ""
    /\ \E c \in (1..NCfg) \ {vinaCfg} : vinaCfg' = c
    /\ lastRun' = NoRun
    /\ UNCHANGED << ligset, mode, plan, sdfDir, yamlCfg, receptor, binary, call, peer, orch,
                    fileVars, manifestFile,
                    viewVars, clock, pc, procVars, idx, manifest, flagVars, cand, proc,
                    retpc, saveStep, exc, runs, invoked, started, finished, nsaves,
                    nsumm, sigK, loaded, exitKind, thisPrev, lastSaved >>

EditReceptor ==
    /\ pc = "idle" /\ ~longRun /\ runs >= 1 /\ runs < Len(plan) /\ lastRun.stage # ""
    /\ \E c \in (1..NCfg) \ {receptor} : receptor' = c
    /\ lastRun' = NoRun
    /\ UNCHANGED << ligset, mode, plan, sdfDir, yamlCfg, vinaCfg, binary, call, peer, orch,
                    fileVars, manifestFile,
                    viewVars, clock, pc, procVars, idx, manifest, flagVars, cand, proc,
                    retpc, saveStep, exc, runs, invoked, started, finished, nsaves,
                    nsumm, sigK, loaded, exitKind, thisPrev, lastSaved >>

EditYaml ==
    /\ pc = "idle" /\ ~longRun /\ runs >= 1 /\ runs < Len(plan) /\ lastRun.stage # ""
    /\ \E c \in (0..NCfg) \ {yamlCfg} : yamlCfg' = c
    /\ lastRun' = NoRun
    /\ UNCHANGED << ligset, mode, plan, sdfDir, vinaCfg, receptor, binary, call, peer, orch,
                    fileVars, manifestFile,
                    viewVars, clock, pc, procVars, idx, manifest, flagVars, cand, proc,
                    retpc, saveStep, exc, runs, invoked, started, finished, nsaves,
                    nsumm, sigK, loaded, exitKind, thisPrev, lastSaved >>

\* ------------------------------------------------------------ process start
\* the history of a process that begins
FreshHistory ==
    /\ runs' = runs + 1
    /\ invoked' = {}
    /\ started' = 0
    /\ finished' = 0
    /\ nsaves' = 0
    /\ nsumm' = 0
    /\ sigK' = -1
    /\ thisPrev' = lastRun

\* raise SystemExit(...) before the loop: nothing was written
FatalExit ==
    /\ exitKind' = "fatal"
    /\ lastRun' = NoRun
    /\ loaded' = EmptyMap
    /\ UNCHANGED << pc, procVars, idx, manifest >>

\* Module 3: "if not id2sdf: raise SystemExit"
NoSdfFound(id2sdf) == DOMAIN id2sdf = {}

\* Module 3 main(), up to the loop
StartM3 ==
    /\ MayStart("m3")
    /\ clock' = clock + 1
    /\ FreshHistory
    /\ LET man == load_manifest(manifestFile)
           id2sdf == discover_sdf(man)
       IN IF NoSdfFound(id2sdf)
          THEN FatalExit
          ELSE /\ pc' = "loop"
               /\ stage' = "m3"
               /\ work' = SdfWork(id2sdf)
               /\ idx' = 1
               /\ manifest' = man
               /\ loaded' = man
               /\ chash' = config_hash
               /\ receptor_sha1' = 0
               /\ created_ts' = clock'
               /\ UNCHANGED << exitKind, lastRun >>
    /\ UNCHANGED << envVars, fileVars, manifestFile, viewVars, flagVars, cand, proc,
                    retpc, saveStep, exc, lastSaved >>

\* a docking preamble that does not look for the receptor file
DockingAbortsNoReceptorCheck == ~binary \/ vinaCfg = 0 \/ Len(LigWork) = 0

\* Module 4a / 4b preamble: find_vina_binary_mac / find_vinagpu_binary raise
\* SystemExit without a binary, parse_vina_config / parse_cfg_file without
\* the configuration file, load_runtime_config without the receptor file,
\* main() without prepared ligands
DockingAborts == ~binary \/ vinaCfg = 0 \/ receptor = 0 \/ Len(LigWork) = 0

\* Module 4a / 4b main(), up to the loop
StartDocking(st) ==
    /\ MayStart(st)
    /\ clock' = clock + 1
    /\ FreshHistory
    /\ IF DockingAborts
       THEN FatalExit
       ELSE /\ pc' = "loop"
            /\ stage' = st
            /\ work' = LigWork
            /\ idx' = 1
            /\ manifest' = load_manifest(manifestFile)
            /\ loaded' = load_manifest(manifestFile)
            /\ chash' = vina_config_hash
            /\ receptor_sha1' = sha1_of_file(receptor)
            /\ created_ts' = clock'
            /\ UNCHANGED << exitKind, lastRun >>
    /\ UNCHANGED << envVars, fileVars, manifestFile, viewVars, flagVars, cand, proc,
                    retpc, saveStep, exc, lastSaved >>

StartCpu == StartDocking("cpu")

StartGpu == StartDocking("gpu")

\* ------------------------------------------------------------- loop control
\* an iteration that works on the first item of the list whatever its index
ItemAlwaysFirst == work[1]

\* the item of this iteration
Item == work[idx]

\* the loop needs no further iteration: the final save follows.  Module 3
\* calls save_manifest after the loop; 4a/4b enter their "finally" block.
LoopEnd ==
    /\ pc = "loop" /\ idx > Len(work)
    /\ pc' = "save" /\ retpc' = "end" /\ saveStep' = 0
    /\ UNCHANGED << envVars, fileVars, manifestFile, viewVars, clock, procVars, idx,
                    manifest, flagVars, cand, proc, exc, histVars >>

\* a stop check that honours only the second Ctrl+C
StopCheckHardOnly == HARD_STOP

\* a stop check that a second Ctrl+C switches off again
StopCheckFirstOnly == STOP_REQUESTED /\ ~HARD_STOP

\* "if STOP_REQUESTED or HARD_STOP" at the top of a docking iteration
StopCheck == STOP_REQUESTED \/ HARD_STOP

\* "if STOP_REQUESTED or HARD_STOP: break"
StopBreak ==
    /\ pc = "loop" /\ idx <= Len(work) /\ stage \in Docking
    /\ StopCheck
    /\ pc' = "save" /\ retpc' = "end" /\ saveStep' = 0
    /\ UNCHANGED << envVars, fileVars, manifestFile, viewVars, clock, procVars, idx,
                    manifest, flagVars, cand, proc, exc, histVars >>

\* "if idx % 50 == 0": the periodic checkpoint after an item of a docking loop
CheckpointDue(i) == i % CheckpointEvery = 0

\* control after an item of a docking loop: checkpoint, or the next iteration
AfterDockItem ==
    /\ idx' = idx + 1
    /\ finished' = finished + 1
    /\ IF CheckpointDue(idx)
       THEN pc' = "save" /\ retpc' = "loop" /\ saveStep' = 0
       ELSE pc' = "loop" /\ UNCHANGED << retpc, saveStep >>

\* ---------------------------------------------------------------- Module 3
\* the manifest update of Module 3, skip path (lines 262-272)
M3SkipRecord(m0, lig_id, sdf_path) ==
    LET m1 == [ m0 EXCEPT !.id = lig_id,
                          !.sdf_path = sdf_path,
                          !.pdbqt_status = "DONE",
                          !.pdbqt_path = lig_id,
                          !.pdbqt_reason = "Found existing valid PDBQT",
                          !.config_hash = chash,
                          !.tools_meeko = "Meeko" ]
        m2 == setdefault(m1, "created_at", created_ts)
    IN [ m2 EXCEPT !.updated_at = now_iso ]

\* the manifest update of Module 3 after run_meeko (lines 281-291)
M3RunRecord(m0, lig_id, sdf_path, ok, reason) ==
    LET m1 == [ m0 EXCEPT !.id = lig_id,
                          !.sdf_path = sdf_path,
                          !.pdbqt_status = IF ok THEN "DONE" ELSE "FAILED",
                          !.pdbqt_path = lig_id,
                          !.pdbqt_reason = IF ok THEN "OK" ELSE reason,
                          !.config_hash = chash,
                          !.tools_meeko = "Meeko" ]
        m2 == setdefault(m1, "created_at", created_ts)
    IN [ m2 EXCEPT !.updated_at = now_iso ]

\* "if skip_if_done and pdbqt_is_valid(out_pdbqt)": keep the existing file
M3Skip ==
    /\ pc = "loop" /\ stage = "m3" /\ idx <= Len(work)
    /\ skip_if_done /\ pdbqt_is_valid(pdbqtFile[Item.id])
    /\ manifest' = Put(manifest, Item.id,
                       M3SkipRecord(RecGet(manifest, Item.id), Item.id, Item.src))
    /\ logs' = [ logs EXCEPT ![Item.id].meeko = SkipLog ]
    /\ idx' = idx + 1
    /\ started' = started + 1
    /\ finished' = finished + 1
    /\ UNCHANGED << envVars, pdbqtFile, pdbqtTmp, poseFile, poseTmp, manifestFile,
                    viewVars, clock, pc, procVars, flagVars, cand, proc, retpc,
                    saveStep, exc, runs, invoked, nsaves, nsumm, sigK, loaded,
                    exitKind, lastRun, thisPrev, lastSaved >>

\* run_meeko begins: "Clean stale outputs", then the first candidate is launched
M3Begin ==
    /\ pc = "loop" /\ stage = "m3" /\ idx <= Len(work)
    /\ ~(skip_if_done /\ pdbqt_is_valid(pdbqtFile[Item.id]))
    /\ pdbqtFile' = [ pdbqtFile EXCEPT ![Item.id] = NoFile ]
    /\ pdbqtTmp' = [ pdbqtTmp EXCEPT ![Item.id] = NoFile ]
    /\ logs' = [ logs EXCEPT ![Item.id].meeko = NoLog ]
    /\ pc' = "exec"
    /\ cand' = 1
    /\ invoked' = invoked \cup {Item.id}
    /\ started' = started + 1
    /\ UNCHANGED << envVars, poseFile, poseTmp, manifestFile, viewVars, clock,
                    procVars, idx, manifest, flagVars, proc, retpc, saveStep, exc,
                    runs, finished, nsaves, nsumm, sigK, loaded, exitKind, lastRun,
                    thisPrev, lastSaved >>

\* run_meeko returns (ok, reason) and main() records it
M3Finish(ok) ==
    /\ manifest' = Put(manifest, Item.id,
                       M3RunRecord(RecGet(manifest, Item.id), Item.id, Item.src, ok,
                                   "All Meeko attempts failed"))
    /\ pc' = "loop"
    /\ idx' = idx + 1
    /\ cand' = 0
    /\ proc' = NoProc
    /\ finished' = finished + 1

\* a candidate did not succeed: "continue" with the next one, or give up
\* ("Failure cleanup": unlink the temporary file)
M3NextCandidate ==
    IF cand < NCandidates
    THEN /\ cand' = cand + 1
         /\ pc' = "exec"
         /\ proc' = NoProc
         /\ UNCHANGED << pdbqtFile, pdbqtTmp, manifest, idx, finished >>
    ELSE /\ pdbqtTmp' = [ pdbqtTmp EXCEPT ![Item.id] = NoFile ]
         /\ UNCHANGED pdbqtFile
         /\ M3Finish(FALSE)

\* subprocess.Popen raises FileNotFoundError: the candidate is not installed
M3NotFound ==
    /\ pc = "exec" /\ stage = "m3" /\ ~longRun
    /\ M3NextCandidate
    /\ UNCHANGED << envVars, poseFile, poseTmp, logs, manifestFile, viewVars, clock,
                    procVars, flagVars, retpc, saveStep, exc, runs, invoked, started,
                    nsaves, nsumm, sigK, loaded, exitKind, lastRun, thisPrev, lastSaved >>

\* what a ligand-preparation command may leave at its -o path
MeekoOutputs == IF longRun THEN { GoodLigand } ELSE { GoodLigand, PartialLigand }

\* the candidate writes (part of) its output to the temporary path
M3ToolWrite ==
    /\ pc = "exec" /\ stage = "m3"
    /\ \E f \in MeekoOutputs : pdbqtTmp' = [ pdbqtTmp EXCEPT ![Item.id] = f ]
    /\ pc' = "exec2"
    /\ UNCHANGED << envVars, pdbqtFile, poseFile, poseTmp, logs, manifestFile, viewVars,
                    clock, procVars, idx, manifest, flagVars, cand, proc, retpc,
                    saveStep, exc, histVars >>

\* exit statuses a tool may return
ExitCodes == IF longRun THEN { 0 } ELSE { 0, 1 }

\* seconds a tool invocation may take
Durations == IF mode = "item" THEN { 0, 1 } ELSE { 0 }

\* _exec: the candidate exits and the log is written
M3ToolExit ==
    /\ pc \in { "exec", "exec2" } /\ stage = "m3"
    /\ longRun => pc = "exec2"
    /\ \E rc \in ExitCodes, d \in Durations :
         /\ proc' = [ rc |-> rc, out |-> "msg", wrote |-> pc = "exec2" ]
         /\ logs' = [ logs EXCEPT ![Item.id].meeko = CmdLog(cand, rc) ]
         /\ clock' = clock + d
    /\ pc' = "post"
    /\ UNCHANGED << envVars, pdbqtFile, pdbqtTmp, poseFile, poseTmp, manifestFile,
                    viewVars, procVars, idx, manifest, flagVars, cand, retpc, saveStep,
                    exc, histVars >>

\* an acceptance test that ignores what the candidate wrote
MeekoAcceptsStatusOnly(rc, tmp) == rc = 0

\* an acceptance test that ignores the exit status
MeekoAcceptsAnyStatus(rc, tmp) == pdbqt_is_valid(tmp)

\* "if rc == 0 and pdbqt_is_valid(tmp_pdbqt)": the candidate's result is usable
MeekoAccepts(rc, tmp) == rc = 0 /\ pdbqt_is_valid(tmp)

\* the candidate's result is examined: publish and return, or try the next one
M3Post ==
    /\ pc = "post" /\ stage = "m3"
    /\ IF MeekoAccepts(proc.rc, pdbqtTmp[Item.id])
       THEN /\ pdbqtFile' = [ pdbqtFile EXCEPT ![Item.id] = pdbqtTmp[Item.id] ]
            /\ pdbqtTmp' = [ pdbqtTmp EXCEPT ![Item.id] = NoFile ]
            /\ M3Finish(TRUE)
       ELSE M3NextCandidate
    /\ UNCHANGED << envVars, poseFile, poseTmp, logs, manifestFile, viewVars, clock,
                    procVars, flagVars, retpc, saveStep, exc, runs, invoked, started,
                    nsaves, nsumm, sigK, loaded, exitKind, lastRun, thisPrev, lastSaved >>

\* ------------------------------------------------------- Modules 4a and 4b
\* Module 4a, lines 1078-1080: the record the iteration works on
CpuRecord(man, lig_id) ==
    setdefault(setdefault(RecGet(man, lig_id), "id", lig_id), "created_at", created_ts)

\* a same_cfg that forgets the receptor
same_cfg_config_only(m) == m.config_hash = chash

\* same_cfg (line 1083)
same_cfg(m) == m.config_hash = chash /\ m.receptor_sha1 = receptor_sha1

\* already_done (line 1084)
already_done(m) == m.vina_status = "DONE"

\* "if has_valid_pose and already_done and same_cfg" (line 1086)
CpuSkips(m, pose) == vina_pose_is_valid(pose) /\ already_done(m) /\ same_cfg(m)

\* the manifest update of the skip path (lines 1088-1093)
CpuSkipRecord(m, lig, pose) ==
    LET m1 == IF m.vina_score = <<>> THEN [ m EXCEPT !.vina_score = Fmt2(best_score(pose)) ]
              ELSE m
    IN [ m1 EXCEPT !.vina_pose = lig,
                   !.pdbqt_path = lig,
                   !.tools_vina = ToolName("cpu"),
                   !.updated_at = now_iso ]

\* Module 4a: the idempotency check keeps the existing pose
CpuSkip ==
    /\ pc = "loop" /\ stage = "cpu" /\ idx <= Len(work)
    /\ ~StopCheck
    /\ CpuSkips(CpuRecord(manifest, Item.id), poseFile[Item.id])
    /\ manifest' = Put(manifest, Item.id,
                       CpuSkipRecord(CpuRecord(manifest, Item.id), Item.src,
                                     poseFile[Item.id]))
    /\ logs' = [ logs EXCEPT ![Item.id].vina = SkipLog ]
    /\ started' = started + 1
    /\ AfterDockItem
    /\ UNCHANGED << envVars, pdbqtFile, pdbqtTmp, poseFile, poseTmp, manifestFile,
                    viewVars, clock, procVars, flagVars, cand, proc, exc, runs,
                    invoked, nsaves, nsumm, sigK, loaded, exitKind, lastRun,
                    thisPrev, lastSaved >>

\* whether this iteration docks the ligand: Module 4b always does
MustDock ==
    stage = "gpu" \/ ~CpuSkips(CpuRecord(manifest, Item.id), poseFile[Item.id])

\* run_vina / run_vinagpu_single begin: "Clean stale outputs", then Popen
DockBegin ==
    /\ pc = "loop" /\ stage \in Docking /\ idx <= Len(work)
    /\ ~StopCheck
    /\ MustDock
    /\ poseFile' = [ poseFile EXCEPT ![Item.id] = NoFile ]
    /\ poseTmp' = [ poseTmp EXCEPT ![Item.id] = NoFile ]
    /\ logs' = [ logs EXCEPT ![Item.id][LogField(stage)] = NoLog ]
    /\ pc' = "exec"
    /\ invoked' = invoked \cup {Item.id}
    /\ started' = started + 1
    /\ UNCHANGED << envVars, pdbqtFile, pdbqtTmp, manifestFile, viewVars, clock,
                    procVars, idx, manifest, flagVars, cand, proc, retpc, saveStep,
                    exc, runs, finished, nsaves, nsumm, sigK, loaded, exitKind,
                    lastRun, thisPrev, lastSaved >>

\* subprocess.Popen itself raises (the binary cannot be executed): the
\* exception leaves the loop through "finally"
DockPopenError ==
    /\ pc = "exec" /\ stage \in Docking /\ mode = "item"
    /\ pc' = "save" /\ retpc' = "end" /\ saveStep' = 0
    /\ exc' = TRUE
    /\ UNCHANGED << envVars, fileVars, manifestFile, viewVars, clock, procVars, idx,
                    manifest, flagVars, cand, proc, histVars >>

\* what the docking tool may leave at its --out path
PoseOutputs ==
    IF mode = "long" THEN { GoodPoseA }
    ELSE IF mode = "item" THEN { GoodPoseA, GoodPoseB, PartialPose }
    ELSE { GoodPoseA, PartialPose }

\* the docking tool writes (part of) its output to the temporary path
DockToolWrite ==
    /\ pc = "exec" /\ stage \in Docking
    /\ \E f \in PoseOutputs : poseTmp' = [ poseTmp EXCEPT ![Item.id] = f ]
    /\ pc' = "exec2"
    /\ UNCHANGED << envVars, pdbqtFile, pdbqtTmp, poseFile, logs, manifestFile, viewVars,
                    clock, procVars, idx, manifest, flagVars, cand, proc, retpc,
                    saveStep, exc, histVars >>

\* (err or out): "msg" ends in a line of text, "blank" is only white space,
\* "empty" is the empty string
Outputs == IF mode = "item" THEN { "msg", "blank", "empty" } ELSE { "msg" }

\* proc.communicate() returns and the log is written
DockToolExit ==
    /\ pc \in { "exec", "exec2" } /\ stage \in Docking
    /\ longRun => pc = "exec2"
    /\ \E rc \in ExitCodes, o \in Outputs, d \in Durations :
         /\ proc' = [ rc |-> rc, out |-> o, wrote |-> pc = "exec2" ]
         /\ logs' = [ logs EXCEPT ![Item.id][LogField(stage)] = CmdLog(1, rc) ]
         /\ clock' = clock + d
    /\ pc' = "post"
    /\ UNCHANGED << envVars, pdbqtFile, pdbqtTmp, poseFile, poseTmp, manifestFile,
                    viewVars, procVars, idx, manifest, flagVars, cand, retpc, saveStep,
                    exc, histVars >>

\* a run_vina that publishes whatever an exit status 0 left behind
VinaAcceptsUnchecked(rc, tmp) == rc = 0

\* run_vina publishes: exit status 0 and a temporary pose that validates
VinaAccepts(rc, tmp) == rc = 0 /\ vina_pose_is_valid(tmp)

\* (err or out or default).strip().splitlines()[-1] raises IndexError
LastLineRaises(o) == o = "blank"

\* (err or out or default).strip().splitlines()[-1][:300]
LastLine(o, default) == IF o = "empty" THEN default ELSE "last line of tool output"

\* the default reason of a failed run
DefaultReason(st, rc) ==
    IF rc # 0 THEN (IF st = "cpu" THEN "Vina rc=1" ELSE "Vina-GPU rc=1")
    ELSE (IF st = "cpu" THEN "Invalid/empty Vina pose" ELSE "Invalid/empty Vina-GPU pose")

\* an iteration that reads manifest.csv again for the record it starts from
DockRecordReread(st, man, lig_id) ==
    IF st = "cpu"
    THEN setdefault(setdefault(RecGet(load_manifest(manifestFile), lig_id), "id", lig_id),
                    "created_at", created_ts)
    ELSE [ RecGet(load_manifest(manifestFile), lig_id) EXCEPT !.id = lig_id ]

\* the record an iteration of Module 4a / 4b starts from
DockRecord(st, man, lig_id) ==
    IF st = "cpu" THEN CpuRecord(man, lig_id)
    ELSE [ RecGet(man, lig_id) EXCEPT !.id = lig_id ]

\* the manifest update after run_vina (4a lines 1111-1130, 4b lines 656-677);
\* pose is the file at out_pose when the update is made
DockRunRecord(st, m0, lig, ok, reason, pose) ==
    LET m1 == [ m0 EXCEPT !.pdbqt_path = lig,
                          !.vina_status = IF ok THEN "DONE" ELSE "FAILED",
                          !.vina_pose = lig,
                          !.vina_reason = IF ok THEN "OK" ELSE reason,
                          !.config_hash = chash,
                          !.receptor_sha1 = receptor_sha1,
                          !.tools_vina = ToolName(st) ]
        m2 == IF st = "gpu" THEN setdefault(m1, "created_at", created_ts) ELSE m1
        m3 == [ m2 EXCEPT !.updated_at = now_iso ]
    IN IF ~ok THEN m3
       ELSE IF vina_pose_is_valid(pose)
            THEN [ m3 EXCEPT !.vina_score = Fmt2(best_score(pose)) ]
            ELSE [ m3 EXCEPT !.vina_status = "FAILED",
                             !.vina_reason = "Pose written but invalid" ]

\* run_vina returns and main() records the outcome
DockPost ==
    /\ pc = "post" /\ stage \in Docking
    /\ LET ok == VinaAccepts(proc.rc, poseTmp[Item.id])
           newPose == IF ok THEN poseTmp[Item.id] ELSE poseFile[Item.id]
       IN /\ ok \/ ~LastLineRaises(proc.out)
          /\ poseFile' = [ poseFile EXCEPT ![Item.id] = newPose ]
          /\ poseTmp' = [ poseTmp EXCEPT ![Item.id] = NoFile ]
          /\ manifest' = Put(manifest, Item.id,
                             DockRunRecord(stage, DockRecord(stage, manifest, Item.id),
                                           Item.src, ok,
                                           LastLine(proc.out, DefaultReason(stage, proc.rc)),
                                           newPose))
    /\ proc' = NoProc
    /\ AfterDockItem
    /\ UNCHANGED << envVars, pdbqtFile, pdbqtTmp, logs, manifestFile, viewVars, clock,
                    procVars, flagVars, cand, exc, runs, invoked, started, nsaves,
                    nsumm, sigK, loaded, exitKind, lastRun, thisPrev, lastSaved >>

\* run_vina fails and its reason line cannot be taken: after the temporary
\* file is removed, IndexError leaves the loop through "finally"
DockPostError ==
    /\ pc = "post" /\ stage \in Docking
    /\ ~VinaAccepts(proc.rc, poseTmp[Item.id])
    /\ LastLineRaises(proc.out)
    /\ poseTmp' = [ poseTmp EXCEPT ![Item.id] = NoFile ]
    /\ proc' = NoProc
    /\ pc' = "save" /\ retpc' = "end" /\ saveStep' = 0
    /\ exc' = TRUE
    /\ UNCHANGED << envVars, pdbqtFile, pdbqtTmp, poseFile, logs, manifestFile, viewVars,
                    clock, procVars, idx, manifest, flagVars, cand, histVars >>

\* ------------------------------------------------------------------ saving
\* write_csv on the manifest, as the file system sees it: open(path, "w")
\* truncates the file in place, then the header and the rows follow.
SaveOpen ==
    /\ pc = "save" /\ saveStep = 0
    /\ manifestFile' = [ exists |-> TRUE, hdr |-> FALSE, rows |-> <<>> ]
    /\ saveStep' = 1
    /\ UNCHANGED << envVars, fileVars, viewVars, clock, pc, procVars, idx, manifest,
                    flagVars, cand, proc, retpc, exc, histVars >>

\* w.writeheader()
SaveHeader ==
    /\ pc = "save" /\ saveStep = 1
    /\ manifestFile' = [ manifestFile EXCEPT !.hdr = TRUE ]
    /\ saveStep' = 2
    /\ UNCHANGED << envVars, fileVars, viewVars, clock, pc, procVars, idx, manifest,
                    flagVars, cand, proc, retpc, exc, histVars >>

\* w.writerow(...) of the next row
SaveRow ==
    /\ pc = "save" /\ saveStep >= 2
    /\ saveStep - 2 < Len(ManifestRows(manifest))
    /\ manifestFile' = [ manifestFile EXCEPT
                           !.rows = Append(@, ManifestRows(manifest)[saveStep - 1]) ]
    /\ saveStep' = saveStep + 1
    /\ UNCHANGED << envVars, fileVars, viewVars, clock, pc, procVars, idx, manifest,
                    flagVars, cand, proc, retpc, exc, histVars >>

\* the file is closed: save_manifest returns.  Module 3 goes on after its
\* only save; 4a/4b regenerate the summaries next.
SaveDone ==
    /\ pc = "save" /\ saveStep >= 2
    /\ saveStep - 2 = Len(ManifestRows(manifest))
    /\ nsaves' = nsaves + 1
    /\ lastSaved' = manifestFile
    /\ saveStep' = 0
    /\ pc' = IF stage \in Docking THEN "summ" ELSE retpc
    /\ UNCHANGED << envVars, fileVars, manifestFile, viewVars, clock, procVars, idx,
                    manifest, flagVars, cand, proc, retpc, exc, runs, invoked,
                    started, finished, nsumm, sigK, loaded, exitKind, lastRun,
                    thisPrev >>

\* a summary that lists the records whose docking status is DONE
summary_rows_done(man) ==
    LET keys == { k \in DOMAIN man : man[k].vina_status = "DONE" }
    IN [ i \in 1..Cardinality(keys) |->
           LET m == man[KeyAt(keys, i)]
           IN [ id |-> m.id, inchikey |-> m.inchikey, vina_score |-> m.vina_score,
                pose_path |-> m.vina_pose, created_at |-> m.updated_at ] ]

\* the rows of summary.csv: one per record with a non-empty vina_score
summary_rows(man) ==
    LET keys == { k \in DOMAIN man : man[k].vina_score # <<>> }
    IN [ i \in 1..Cardinality(keys) |->
           LET m == man[KeyAt(keys, i)]
           IN [ id |-> m.id, inchikey |-> m.inchikey, vina_score |-> m.vina_score,
                pose_path |-> m.vina_pose, created_at |-> m.updated_at ] ]

\* float(r["vina_score"])
ScoreValue(text) == text[1]

\* a leaderboard that keeps the order of the summary
RankOfUnsorted(rows, j) == j

\* position of row j in sorted(rows, key=float(vina_score)): the sort is stable
RankOf(rows, j) ==
    1 + Cardinality({ k \in 1..Len(rows) :
                        \/ ScoreValue(rows[k].vina_score) < ScoreValue(rows[j].vina_score)
                        \/ /\ ScoreValue(rows[k].vina_score) = ScoreValue(rows[j].vina_score)
                           /\ k < j })

\* the rows of leaderboard.csv
leader_rows(rows) ==
    [ i \in 1..Len(rows) |->
        LET r == rows[CHOOSE j \in 1..Len(rows) : RankOf(rows, j) = i]
        IN [ rank |-> i, id |-> r.id, inchikey |-> r.inchikey,
             vina_score |-> r.vina_score, pose_path |-> r.pose_path ] ]

\* build_and_write_summaries_from_manifest(manifest)
WriteSummaries ==
    /\ pc = "summ"
    /\ summaryFile' = [ exists |-> TRUE, hdr |-> TRUE, rows |-> summary_rows(manifest) ]
    /\ leaderFile' = [ exists |-> TRUE, hdr |-> TRUE,
                       rows |-> leader_rows(summary_rows(manifest)) ]
    /\ nsumm' = nsumm + 1
    /\ pc' = retpc
    /\ UNCHANGED << envVars, fileVars, manifestFile, clock, procVars, idx, manifest,
                    flagVars, cand, proc, retpc, saveStep, exc, runs, invoked, started,
                    finished, nsaves, sigK, loaded, exitKind, lastRun, thisPrev,
                    lastSaved >>

\* ------------------------------------------------------------- process end
\* the process is gone: its memory with it
ProcessGone ==
    /\ pc' = "idle"
    /\ stage' = ""
    /\ work' = <<>>
    /\ idx' = 0
    /\ manifest' = EmptyMap
    /\ chash' = 0
    /\ receptor_sha1' = 0
    /\ created_ts' = 0
    /\ STOP_REQUESTED' = FALSE
    /\ HARD_STOP' = FALSE
    /\ cand' = 0
    /\ proc' = NoProc
    /\ retpc' = ""
    /\ saveStep' = 0
    /\ exc' = FALSE

\* main() returns, or the exception that went through "finally" ends the process
Exit ==
    /\ pc = "end"
    /\ ProcessGone
    /\ exitKind' = IF exc THEN "error"
                   ELSE IF finished < Len(work) THEN "stopped" ELSE "normal"
    /\ lastRun' = [ stage |-> stage,
                    allDone |-> ~exc /\ finished = Len(work) /\ AllDone(stage, work, manifest),
                    man |-> manifest ]
    /\ UNCHANGED << envVars, fileVars, manifestFile, viewVars, clock, runs, invoked,
                    started, finished, nsaves, nsumm, sigK, loaded, thisPrev, lastSaved >>

\* _handle_sigint of Module 4a / 4b
Sigint ==
    /\ pc \notin { "idle" } /\ stage \in Docking /\ mode # "short"
    /\ ~HARD_STOP
    /\ IF ~STOP_REQUESTED
       THEN /\ STOP_REQUESTED' = TRUE
            /\ sigK' = started
            /\ UNCHANGED HARD_STOP
       ELSE /\ HARD_STOP' = TRUE
            /\ UNCHANGED << STOP_REQUESTED, sigK >>
    /\ UNCHANGED << envVars, fileVars, manifestFile, viewVars, clock, pc, procVars, idx,
                    manifest, cand, proc, retpc, saveStep, exc, runs, invoked, started,
                    finished, nsaves, nsumm, loaded, exitKind, lastRun, thisPrev,
                    lastSaved >>

\* Module 3 installs no handler and has no "finally": Ctrl+C raises
\* KeyboardInterrupt, which no "except Exception" catches, and the process
\* ends where it is
SigintM3 ==
    /\ pc \notin { "idle" } /\ stage = "m3" /\ mode # "short"
    /\ ProcessGone
    /\ exitKind' = "error"
    /\ lastRun' = NoRun
    /\ UNCHANGED << envVars, fileVars, manifestFile, viewVars, clock, runs, invoked,
                    started, finished, nsaves, nsumm, sigK, loaded, thisPrev, lastSaved >>

\* abrupt termination (SIGKILL, power loss) of whatever stage is running
Kill ==
    /\ pc \notin { "idle" } /\ mode \in { "item", "long" }
    /\ ProcessGone
    /\ exitKind' = "killed"
    /\ lastRun' = NoRun
    /\ UNCHANGED << envVars, fileVars, manifestFile, viewVars, clock, runs, invoked,
                    started, finished, nsaves, nsumm, sigK, loaded, thisPrev, lastSaved >>

\* --------------------------------------------------------- specifications
Next ==
    \/ EditVinaConfig \/ EditReceptor \/ EditYaml
    \/ StartM3 \/ StartCpu \/ StartGpu
    \/ LoopEnd
    \/ M3Skip \/ M3Begin \/ M3NotFound \/ M3ToolWrite \/ M3ToolExit \/ M3Post
    \/ CpuSkip \/ DockBegin \/ DockToolWrite \/ DockToolExit \/ DockPost
    \/ SaveOpen \/ SaveHeader \/ SaveRow \/ SaveDone \/ WriteSummaries
    \/ Exit

\* short runs: two stage processes over NLigs ligands
Spec == Init /\ [][Next]_vars

NextStop ==
    \/ StartM3 \/ StartCpu \/ StartGpu
    \/ LoopEnd \/ StopBreak
    \/ M3Skip \/ M3Begin \/ M3NotFound \/ M3ToolWrite \/ M3ToolExit \/ M3Post
    \/ CpuSkip \/ DockBegin \/ DockToolWrite \/ DockToolExit \/ DockPost
    \/ SaveOpen \/ SaveHeader \/ SaveRow \/ SaveDone \/ WriteSummaries
    \/ Exit \/ Sigint \/ SigintM3

\* stage processes over NLigs ligands, interrupted by Ctrl+C
SpecStop == InitStop /\ [][NextStop]_vars

NextItem ==
    \/ EditVinaConfig \/ EditReceptor \/ EditYaml
    \/ StartM3 \/ StartCpu \/ StartGpu
    \/ LoopEnd \/ StopBreak
    \/ M3Skip \/ M3Begin \/ M3NotFound \/ M3ToolWrite \/ M3ToolExit \/ M3Post
    \/ CpuSkip \/ DockBegin \/ DockPopenError \/ DockToolWrite \/ DockToolExit
    \/ DockPost \/ DockPostError
    \/ SaveOpen \/ SaveHeader \/ SaveRow \/ SaveDone \/ WriteSummaries
    \/ Exit \/ Sigint \/ SigintM3 \/ Kill

\* one ligand: every outcome of a tool invocation, and abrupt termination
SpecItem == InitItem /\ [][NextItem]_vars

NextLong ==
    \/ StartM3 \/ StartCpu \/ StartGpu
    \/ LoopEnd \/ StopBreak
    \/ M3Skip \/ M3Begin \/ M3ToolWrite \/ M3ToolExit \/ M3Post
    \/ DockBegin \/ DockToolWrite \/ DockToolExit \/ DockPost
    \/ SaveOpen \/ SaveHeader \/ SaveRow \/ SaveDone \/ WriteSummaries
    \/ Exit \/ Sigint \/ SigintM3 \/ Kill

\* one long run: a single stage process over NLong ligands
SpecLong == InitLong /\ [][NextLong]_vars

\* ---------------------------------------------------------- orchestrator
\* run_pipeline.py runs the stage scripts in order as subprocesses.  A stage
\* script is seen from here by its exit status alone.

\* everything the orchestrator leaves alone
notOrch == << ligset, mode, plan, sdfDir, yamlCfg, vinaCfg, receptor, binary, call, peer,
              fileVars, manifestFile, viewVars, clock, pc, procVars, idx, manifest,
              flagVars, cand, proc, retpc, saveStep, exc, histVars >>

InitOrch == InitWith({1}, "orch", { <<>> })

\* enumerate(modules, start=1)
StageIdx == 1..NPatterns

\* the values of --only ({}: not given) and --skip explored
OnlyChoices == { {}, { 2 }, { 1, 3, NPatterns } }

SkipChoices == { {}, { 3 }, { 1, 2 } }

\* find_modules: the project directory holds a script for these stages; no
\* checkpoint exists before the first invocation.  lastrc (observation only)
\* is the exit status of each stage's most recent execution, -1 before any
OrchSetup ==
    /\ mode = "orch" /\ orch.pc = "none"
    /\ \E ms \in SUBSET StageIdx :
         orch' = [ pc |-> "idle", modules |-> ms, ckpt |-> {}, resume |-> FALSE,
                   fresh |-> FALSE, list |-> FALSE, only |-> {}, skip |-> {}, idx |-> 0,
                   executed |-> <<>>, failedAt |-> 0, ckpt0 |-> {}, status |-> 0,
                   lastrc |-> [ i \in StageIdx |-> -1 ] ]
    /\ UNCHANGED notOrch

\* main(): the command line is parsed; "--list" prints the modules and returns
OrchInvoke ==
    /\ mode = "orch" /\ orch.pc \in { "idle", "exited" }
    /\ \E r \in BOOLEAN, f \in BOOLEAN, l \in BOOLEAN, o \in OnlyChoices, sk \in SkipChoices :
         orch' = [ orch EXCEPT !.pc = IF l THEN "exited" ELSE "loop",
                               !.resume = r, !.fresh = f, !.list = l,
                               !.only = o, !.skip = sk,
                               !.idx = 1, !.executed = <<>>, !.failedAt = 0,
                               !.ckpt0 = orch.ckpt, !.status = 0 ]
    /\ UNCHANGED notOrch

\* a resume test that --fresh does not override
ResumeSkipsDespiteFresh(o, i) == o.resume /\ i \in o.ckpt

\* "if args.resume and is_done(ck_file) and not args.fresh"
ResumeSkips(o, i) == o.resume /\ i \in o.ckpt /\ ~o.fresh

\* the tests that "continue" past stage i without running it
Passes(o, i) ==
    \/ o.only # {} /\ i \notin o.only
    \/ i \in o.skip
    \/ i \notin o.modules
    \/ ResumeSkips(o, i)

\* one iteration of the stage loop up to run_cmd: "continue", or (with
\* --fresh, after trying to unlink the checkpoint) start the stage script
OrchStep ==
    /\ mode = "orch" /\ orch.pc = "loop" /\ orch.idx <= NPatterns
    /\ IF Passes(orch, orch.idx)
       THEN orch' = [ orch EXCEPT !.idx = @ + 1 ]
       ELSE \E unlinked \in BOOLEAN :
              orch' = [ orch EXCEPT !.pc = "run",
                                    !.ckpt = IF orch.fresh /\ unlinked
                                             THEN @ \ { orch.idx } ELSE @ ]
    /\ UNCHANGED notOrch

\* a test that takes every exit status for success
StageOkAlways(rc) == TRUE

\* "if proc.returncode == 0"
StageOk(rc) == rc = 0

\* the stage script exits: mark_done on status 0, else "break"
OrchStageExit ==
    /\ mode = "orch" /\ orch.pc = "run"
    /\ \E rc \in { 0, 1 } :
         orch' = IF StageOk(rc)
                 THEN [ orch EXCEPT !.pc = "loop",
                                    !.executed = Append(@, orch.idx),
                                    !.ckpt = @ \cup { orch.idx },
                                    !.lastrc[orch.idx] = rc,
                                    !.idx = @ + 1 ]
                 ELSE [ orch EXCEPT !.pc = "exited",
                                    !.executed = Append(@, orch.idx),
                                    !.failedAt = orch.idx,
                                    !.lastrc[orch.idx] = rc,
                                    !.status = 1 ]
    /\ UNCHANGED notOrch

\* the loop is exhausted: "Pipeline completed successfully"
OrchEnd ==
    /\ mode = "orch" /\ orch.pc = "loop" /\ orch.idx > NPatterns
    /\ orch' = [ orch EXCEPT !.pc = "exited" ]
    /\ UNCHANGED notOrch

NextOrch == OrchSetup \/ OrchInvoke \/ OrchStep \/ OrchStageExit \/ OrchEnd

\* any number of orchestrator invocations in one project directory
SpecOrch == InitOrch /\ [][NextOrch]_vars

\* ------------------------------------------------- a second stage process
\* Nothing keeps two stage processes from running in the same project
\* directory.  The second one is a Module 3 process; each of its iterations
\* and its save_manifest are taken as one step each, and it does not write
\* manifest.csv while the first process is in the middle of writing it.

\* everything the second process leaves alone
notPeer == << ligset, mode, plan, sdfDir, yamlCfg, vinaCfg, receptor, binary, call, orch,
              poseFile, poseTmp, viewVars, clock, pc, procVars, idx, manifest, flagVars,
              cand, proc, retpc, saveStep, exc, histVars >>

InitPeer == InitWith(1..NLigs, "peer", OneRun)

\* Module 3 main(), up to the loop, in the second process
PeerStart ==
    /\ mode = "peer" /\ peer.pc = "none"
    /\ LET man == load_manifest(manifestFile)
           id2sdf == discover_sdf(man)
       IN peer' = IF NoSdfFound(id2sdf)
                  THEN [ peer EXCEPT !.pc = "done" ]
                  ELSE [ pc |-> "loop", manifest |-> man, work |-> SdfWork(id2sdf),
                         idx |-> 1, saved |-> NoCsv ]
    /\ UNCHANGED << notPeer, pdbqtFile, pdbqtTmp, logs, manifestFile >>

\* the record of the second process for its current item
PeerRecord(ok, skipped) ==
    LET it == peer.work[peer.idx]
        m0 == RecGet(peer.manifest, it.id)
        m  == IF skipped THEN M3SkipRecord(m0, it.id, it.src)
              ELSE M3RunRecord(m0, it.id, it.src, ok, "All Meeko attempts failed")
    IN [ m EXCEPT !.config_hash = config_hash ]

\* one iteration of the loop of Module 3 in the second process: the skip
\* path, or run_meeko with its first candidate succeeding or all failing
PeerItem ==
    /\ mode = "peer" /\ peer.pc = "loop" /\ peer.idx <= Len(peer.work)
    /\ LET k == peer.work[peer.idx].id
       IN IF skip_if_done /\ pdbqt_is_valid(pdbqtFile[k])
          THEN /\ peer' = [ peer EXCEPT !.manifest = Put(@, k, PeerRecord(TRUE, TRUE)),
                                         !.idx = @ + 1 ]
               /\ logs' = [ logs EXCEPT ![k].meeko = SkipLog ]
               /\ UNCHANGED << pdbqtFile, pdbqtTmp >>
          ELSE \E ok \in BOOLEAN :
                 /\ peer' = [ peer EXCEPT !.manifest = Put(@, k, PeerRecord(ok, FALSE)),
                                           !.idx = @ + 1 ]
                 /\ pdbqtFile' = [ pdbqtFile EXCEPT ![k] = IF ok THEN GoodLigand ELSE NoFile ]
                 /\ pdbqtTmp' = [ pdbqtTmp EXCEPT ![k] = NoFile ]
                 /\ logs' = [ logs EXCEPT ![k].meeko =
                                CmdLog(IF ok THEN 1 ELSE NCandidates, IF ok THEN 0 ELSE 1) ]
    /\ UNCHANGED << notPeer, manifestFile >>

\* save_manifest(manifest) of the second process, and its exit
PeerSave ==
    /\ mode = "peer" /\ peer.pc = "loop" /\ peer.idx > Len(peer.work)
    /\ pc # "save"
    /\ manifestFile' = [ exists |-> TRUE, hdr |-> TRUE, rows |-> ManifestRows(peer.manifest) ]
    /\ peer' = [ peer EXCEPT !.pc = "done",
                             !.saved = [ exists |-> TRUE, hdr |-> TRUE,
                                         rows |-> ManifestRows(peer.manifest) ] ]
    /\ UNCHANGED << notPeer, pdbqtFile, pdbqtTmp, logs >>

NextPeer ==
    \/ StartM3 \/ StartCpu \/ StartGpu
    \/ LoopEnd
    \/ M3Skip \/ M3Begin \/ M3ToolWrite \/ M3ToolExit \/ M3Post
    \/ DockBegin \/ DockToolWrite \/ DockToolExit \/ DockPost
    \/ SaveOpen \/ SaveHeader \/ SaveRow \/ SaveDone \/ WriteSummaries
    \/ Exit
    \/ PeerStart \/ PeerItem \/ PeerSave

\* one stage process over NLigs ligands, and a Module 3 process beside it
SpecPeer == InitPeer /\ [][NextPeer]_vars

\* ---------------------------------------------- functions applied on their own
\* Validators and view builders are functions of their argument alone; here
\* each is applied to every argument of a bounded set.

\* everything but the call
notCall == << ligset, mode, plan, sdfDir, yamlCfg, vinaCfg, receptor, binary, peer, orch,
              fileVars, manifestFile, viewVars, clock, pc, procVars, idx, manifest,
              flagVars, cand, proc, retpc, saveStep, exc, histVars >>

InitUnit == InitWith({1}, "unit", { <<>> })

\* scores (in thousandths) a result line may carry
ScoreVals == { -8123, -7456, -5121 }

\* the sequences of at most n result lines
ScoreSeqs(n) == UNION { [ 1..k -> ScoreVals ] : k \in 0..n }

\* files around the size threshold, with and without each marker
UnitFiles ==
    { NoFile } \cup
    { [ exists |-> TRUE, size |-> sz, atom |-> a, tors |-> t, scores |-> sc,
        readable |-> r ] :
        sz \in { 0, MinSize - 1, MinSize, MinSize + 250 },
        a \in BOOLEAN, t \in BOOLEAN, r \in BOOLEAN,
        sc \in ScoreSeqs(MaxScores) }

\* manifests of at most NKeys records, each with or without a score
UnitManifests ==
    LET texts == { <<>> } \cup { Fmt2(v) : v \in ScoreVals }
        rec(k, sc) == [ BlankRecord EXCEPT !.id = k,
                                           !.vina_status = IF sc = <<>> THEN "FAILED" ELSE "DONE",
                                           !.vina_score = sc,
                                           !.vina_pose = k ]
    IN UNION { { [ k \in K |-> rec(k, f[k]) ] : f \in [ K -> texts ] } :
               K \in SUBSET (1..NKeys) }

\* pdbqt_is_valid(path)
CallLigandValidator ==
    /\ mode = "unit" /\ call.fn = ""
    /\ \E f \in UnitFiles :
         call' = [ fn |-> "pdbqt_is_valid", arg |-> f, ret |-> pdbqt_is_valid(f) ]
    /\ UNCHANGED notCall

\* vina_pose_is_valid(path): (False, None) or (True, min(scores))
CallPoseValidator ==
    /\ mode = "unit" /\ call.fn = ""
    /\ \E f \in UnitFiles :
         call' = [ fn |-> "vina_pose_is_valid", arg |-> f,
                   ret |-> IF vina_pose_is_valid(f)
                           THEN [ ok |-> TRUE, best |-> << best_score(f) >> ]
                           ELSE [ ok |-> FALSE, best |-> <<>> ] ]
    /\ UNCHANGED notCall

\* build_and_write_summaries_from_manifest(manifest): the rows of the two files
CallViews ==
    /\ mode = "unit" /\ call.fn = ""
    /\ \E man \in UnitManifests :
         call' = [ fn |-> "build_and_write_summaries_from_manifest", arg |-> man,
                   ret |-> [ summary |-> summary_rows(man),
                             leader |-> leader_rows(summary_rows(man)) ] ]
    /\ UNCHANGED notCall

\* the characters of a file stem: "-", "1" and "_" by their code points
StemChars == { 45, 49, 95 }

\* the stems of at most MaxStem characters
Stems == UNION { [ 1..k -> StemChars ] : k \in 1..MaxStem }

\* a < b on Python strings: the first difference decides, a proper prefix is less
StrLess(a, b) ==
    \E n \in 0..Len(a) :
       /\ n <= Len(b)
       /\ \A i \in 1..n : a[i] = b[i]
       /\ IF n = Len(a) THEN n < Len(b) ELSE n < Len(b) /\ a[n + 1] < b[n + 1]

\* the name of a prepared ligand: the stem, then "." (code point 46) and an
\* extension that is the same for every file
FileName(stem) == Append(stem, 46)

\* sorted(DIR_PREP.glob("*.pdbqt")): paths of one directory compare by file
\* name; the result is given by the stems (lig.stem) in the order of the list
sorted_glob(dir) ==
    [ i \in 1..Cardinality(dir) |->
        CHOOSE s \in dir :
          Cardinality({ t \in dir : StrLess(FileName(t), FileName(s)) }) = i - 1 ]

\* the work list of a docking stage over a directory of two prepared ligands
CallSortedGlob ==
    /\ mode = "unit" /\ call.fn = ""
    /\ \E a \in Stems : \E b \in Stems \ { a } :
         call' = [ fn |-> "sorted_glob", arg |-> { a, b }, ret |-> sorted_glob({ a, b }) ]
    /\ UNCHANGED notCall

\* the value of a configuration key: a text int() accepts, with the number
\* it denotes, or a text it rejects
IntText(n) == [ int |-> TRUE, val |-> n ]

BadText == [ int |-> FALSE, val |-> 0 ]

\* as_int(d, k, default): int(str(d.get(k, default)).strip()), the default
\* when int() raises
as_int(d, k, default) ==
    IF k \in DOMAIN d /\ d[k].int THEN d[k].val ELSE default

\* a thread count taken as configured
gcfg_thread_unclamped(conf) == as_int(conf, "thread", DefaultThread)

\* gcfg["thread"] as load_runtime_config returns it
gcfg_thread(conf) ==
    LET t == as_int(conf, "thread", DefaultThread)
    IN IF t < MinThread THEN MinThread ELSE t

\* the configurations explored: the key absent, malformed, or a number
\* around zero, the minimum and the default
ThreadConfs ==
    { << >> } \cup
    { [ k \in { "thread" } |-> v ] :
        v \in { BadText } \cup
              { IntText(n) : n \in { -1, 0, 1, MinThread - 1, MinThread, MinThread + 1,
                                      DefaultThread, DefaultThread + 1 } } }

\* load_runtime_config (Module 4b): the "--thread" value of the command line
CallThread ==
    /\ mode = "unit" /\ call.fn = ""
    /\ \E conf \in ThreadConfs :
         call' = [ fn |-> "gcfg_thread", arg |-> conf, ret |-> gcfg_thread(conf) ]
    /\ UNCHANGED notCall

\* a path outside the input directory
Elsewhere == NKeys + 1

\* manifests of at most NKeys records, each with no input path, the path
\* of a file of the input directory, or a path elsewhere
UnitSdfManifests ==
    UNION { [ K -> { [ BlankRecord EXCEPT !.sdf_path = p ] : p \in 0..Elsewhere } ] :
            K \in SUBSET (1..NKeys) }

\* discover_sdf(manifest), for every content of the input directory, the
\* file elsewhere existing or not
CallDiscover ==
    /\ mode = "unit" /\ call.fn = ""
    /\ \E man \in UnitSdfManifests, dir \in SUBSET (1..NKeys), other \in SUBSET { Elsewhere } :
         call' = [ fn |-> "discover_sdf",
                   arg |-> [ manifest |-> man, dir |-> dir, present |-> dir \cup other ],
                   ret |-> id2sdf_of(man, dir, dir \cup other) ]
    /\ UNCHANGED notCall

\* the function returns
CallReturn ==
    /\ mode = "unit" /\ call.fn # ""
    /\ call' = NoCall
    /\ UNCHANGED notCall

NextUnit ==
    \/ CallLigandValidator \/ CallPoseValidator \/ CallViews \/ CallSortedGlob
    \/ CallDiscover \/ CallThread
    \/ CallReturn

\* the validators and the view builder, applied to every bounded argument
SpecUnit == InitUnit /\ [][NextUnit]_vars

\* ------------------------------------------------------------------ claims
\* the complete table save_manifest writes for a manifest state
FullTable(man) == [ exists |-> TRUE, hdr |-> TRUE, rows |-> ManifestRows(man) ]

\* the process is inside the per-item loop
InLoop == pc \in { "loop", "exec", "exec2", "post" }

\* C1: idempotence of every stage run loop.  When a run in which every item
\* ended DONE is followed by a run of the same stage with nothing changed in
\* between, the second run sends no item down the tool path, every item is
\* DONE again, and the output path and the score of every item are the ones
\* the first run recorded.
C1_SecondRunSkipsAll ==
    (pc = "end" /\ ~exc /\ finished = Len(work)
        /\ thisPrev.stage = stage /\ thisPrev.allDone)
    => /\ invoked = {}
       /\ AllDone(stage, work, manifest)
       /\ \A i \in 1..Len(work) :
            LET k == work[i].id
            IN /\ k \in DOMAIN thisPrev.man
               /\ manifest[k].pdbqt_path = thisPrev.man[k].pdbqt_path
               /\ manifest[k].vina_pose = thisPrev.man[k].vina_pose
               /\ manifest[k].vina_score = thisPrev.man[k].vina_score

\* C2: atomic publication.  In every state, a final output path (prepared
\* ligand or pose) is absent or holds a file that passes its validator;
\* content that does not validate exists at temporary paths only.
C2_FinalAbsentOrValid ==
    \A i \in ligset :
        /\ pdbqtFile[i].exists => pdbqt_is_valid(pdbqtFile[i])
        /\ poseFile[i].exists => vina_pose_is_valid(poseFile[i])

\* C2 witness: a docking tool has exited non-zero after writing a partial
\* temporary pose, and a prepared ligand (a final output) is in place
C2_Witness ==
    /\ pc = "post" /\ stage \in Docking
    /\ proc.rc # 0
    /\ poseTmp[Item.id] = PartialPose
    /\ pdbqtFile[Item.id].exists

C4_FinalFlush ==
    /\ (pc = "end")
       => /\ nsaves >= 1
          /\ manifestFile = FullTable(manifest)
          /\ stage \in Docking => (nsumm >= 1 /\ summaryFile.rows = summary_rows(manifest))
    /\ (pc = "idle" /\ started >= 1 /\ exitKind \in { "normal", "stopped", "error" })
       => nsaves >= 1

\* C5: fingerprint sensitivity.  Whenever a docking iteration begins an item
\* whose record is DONE and whose pose file validates, and the recorded
\* config_hash or receptor_sha1 differs from the current one, the item takes
\* the tool path (so it is skipped only when both are equal).
C5_ChangedFingerprintRedocks ==
    [][ (pc = "loop" /\ stage \in Docking /\ idx <= Len(work) /\ started' = started + 1)
        => LET m == RecGet(manifest, work[idx].id)
           IN (/\ m.vina_status = "DONE"
               /\ vina_pose_is_valid(poseFile[work[idx].id])
               /\ (m.config_hash # chash \/ m.receptor_sha1 # receptor_sha1))
              => work[idx].id \in invoked' ]_vars

\* C5 witness: Module 4a is docking again an item its record calls DONE,
\* because the receptor hash recorded differs from the current one
C5_Witness ==
    /\ pc = "exec" /\ stage = "cpu"
    /\ Item.id \in DOMAIN manifest
    /\ manifest[Item.id].vina_status = "DONE"
    /\ manifest[Item.id].config_hash = chash
    /\ manifest[Item.id].receptor_sha1 # receptor_sha1

\* C6: manifest key invariant.  Every record of the in-memory manifest has
\* its key in its id field, and once a run has saved, reloading the file
\* yields a record under the identifier of every item the run finished.
C6_IdIsKey ==
    /\ \A k \in DOMAIN manifest : manifest[k].id = k
    /\ (pc = "end")
       => \A i \in 1..finished : work[i].id \in DOMAIN load_manifest(manifestFile)

\* C7: timestamps.  A write that creates a record sets a non-empty
\* created_at, a write to an existing record leaves created_at alone, and
\* every write sets updated_at to the current time.
C7_Timestamps ==
    [][ (pc # "idle")
        => \A k \in DOMAIN manifest' :
             (k \notin DOMAIN manifest \/ manifest'[k] # manifest[k])
             => /\ manifest'[k].updated_at = clock'
                /\ IF k \in DOMAIN manifest
                   THEN manifest'[k].created_at = manifest[k].created_at
                   ELSE manifest'[k].created_at # 0 ]_vars

\* C8: first-run scenario.  From an empty manifest, with one ligand and a
\* tool that exits 0 leaving a valid pose, a docking run ends with a
\* manifest file holding a row whose id is the ligand, whose status is DONE,
\* whose score and pose path are not empty and whose created_at equals its
\* updated_at.
C8_FirstRunRow ==
    (/\ pc = "end" /\ stage \in Docking /\ runs = 1 /\ ~exc
     /\ finished = 1
     /\ logs[1][LogField(stage)] = CmdLog(1, 0)
     /\ vina_pose_is_valid(poseFile[1]))
    => \E i \in 1..Len(manifestFile.rows) :
         LET r == manifestFile.rows[i]
         IN /\ r.id = 1
            /\ r.vina_status = "DONE"
            /\ r.vina_score # <<>>
            /\ r.vina_pose # 0
            /\ r.created_at = r.updated_at

\* C9: snapshot consistency.  At every instant manifest.csv, when it exists,
\* is a complete table: the one of the last completed save, or the one of
\* the manifest state being saved.
C9_CompleteSnapshot ==
    manifestFile.exists
    => \/ manifestFile = lastSaved
       \/ pc = "save" /\ manifestFile = FullTable(manifest)

\* the items this run finished whose record is not a row of manifest.csv
LostItems ==
    { i \in 1..finished :
        \A j \in 1..Len(manifestFile.rows) : manifestFile.rows[j] # manifest[work[i].id] }

\* C10: bounded data loss.  At every point of a run (where it may be
\* terminated abruptly) at most CheckpointEvery finished items are missing
\* from manifest.csv.
C10_BoundedLoss ==
    (pc # "idle") => Cardinality(LostItems) <= CheckpointEvery

\* the final output of an item in a stage, and the reason the stage recorded
OutFile(st, k) == IF st = "m3" THEN pdbqtFile[k] ELSE poseFile[k]

ReasonOf(st, m) == IF st = "m3" THEN m.pdbqt_reason ELSE m.vina_reason

\* C11: per-item failures never stop the run.  No exception leaves the
\* per-item boundary; and between two iterations, every earlier item of the
\* work list has its record, which for an item whose tool invocation left no
\* final output says FAILED with a reason.
C11_ItemFailuresContained ==
    /\ ~exc
    /\ (pc = "loop")
       => \A i \in 1..(idx - 1) :
            LET k == work[i].id
            IN /\ k \in DOMAIN manifest
               /\ (k \in invoked /\ ~OutFile(stage, k).exists)
                  => /\ StatusOf(stage, manifest[k]) = "FAILED"
                     /\ ReasonOf(stage, manifest[k]) # ""

\* the fatal condition of a stage, as the project directory shows it
FatalCondition(st) ==
    IF st = "m3"
    THEN \A k \in DOMAIN load_manifest(manifestFile) \cup sdfDir :
            /\ k \notin sdfDir
            /\ load_manifest(manifestFile)[k].sdf_path \notin sdfDir
    ELSE \/ ~binary
         \/ receptor = 0
         \/ \A i \in ligset : ~pdbqtFile[i].exists

\* C12: fatal conditions abort before any work.  A stage process started
\* with no input item, without its docking binary or without the receptor
\* file ends at once with a non-zero status, having invoked no tool and
\* written neither the manifest nor a derived view nor any output or log.
C12_FatalAbortsBeforeWork ==
    [][ (pc = "idle" /\ runs' = runs + 1 /\ FatalCondition(plan[runs + 1]))
        => /\ pc' = "idle"
           /\ exitKind' = "fatal"
           /\ invoked' = {}
           /\ manifestFile' = manifestFile
           /\ viewVars' = viewVars
           /\ fileVars' = fileVars ]_vars

\* C12 witness: a docking process found no receptor file and ended with the
\* fatal status, the manifest of the earlier ligand preparation still there
C12_Witness ==
    /\ pc = "idle" /\ runs = 2 /\ exitKind = "fatal"
    /\ plan[2] \in Docking
    /\ receptor = 0 /\ binary
    /\ \E i \in ligset : pdbqtFile[i].exists
    /\ manifestFile.exists /\ Len(manifestFile.rows) >= 1

\* C13: leaderboard ordering.  For any manifest, the leaderboard rows are in
\* non-decreasing order of numeric score, the ranks are 1..n in row order,
\* there is one row per record with a score, and the rank-1 row has the
\* least of all recorded scores.
C13_LeaderboardOrdered ==
    (call.fn = "build_and_write_summaries_from_manifest")
    => LET man == call.arg
           L == call.ret.leader
           scored == { k \in DOMAIN man : man[k].vina_score # <<>> }
       IN /\ Len(L) = Cardinality(scored)
          /\ \A i \in 1..Len(L) : L[i].rank = i
          /\ \A i \in 1..(Len(L) - 1) :
               ScoreValue(L[i].vina_score) <= ScoreValue(L[i + 1].vina_score)
          /\ \A k \in scored :
               /\ ScoreValue(L[1].vina_score) <= ScoreValue(man[k].vina_score)
               /\ \E i \in 1..Len(L) : L[i].id = k /\ L[i].vina_score = man[k].vina_score

\* C13 witness: the leaderboard of three scored records of which the first
\* by identifier has the worst score, and two scores tie
C13_Witness ==
    /\ call.fn = "build_and_write_summaries_from_manifest"
    /\ Len(call.ret.leader) = 3
    /\ call.ret.leader[3].id = 1
    /\ call.ret.leader[1].vina_score = call.ret.leader[2].vina_score

\* C15: validator rejection.  A file that is absent, smaller than MinSize
\* bytes, unreadable, or without its markers (ligand: an atom record and
\* TORSDOF; pose: a score line) is invalid whatever else it holds, and the
\* validator returns a verdict for every file.
C15_ValidatorRejects ==
    /\ (call.fn = "pdbqt_is_valid")
       => /\ call.ret \in BOOLEAN
          /\ (\/ ~call.arg.exists \/ call.arg.size < MinSize \/ ~call.arg.readable
              \/ ~call.arg.atom \/ ~call.arg.tors)
             => call.ret = FALSE
    /\ (call.fn = "vina_pose_is_valid")
       => /\ call.ret.ok \in BOOLEAN
          /\ (\/ ~call.arg.exists \/ call.arg.size < MinSize \/ ~call.arg.readable
              \/ call.arg.scores = <<>>)
             => (call.ret.ok = FALSE /\ call.ret.best = <<>>)

\* C15 witness: a ligand file one byte under the threshold, with both
\* markers and readable, has been judged
C15_Witness ==
    /\ call.fn = "pdbqt_is_valid"
    /\ call.arg.exists /\ call.arg.readable
    /\ call.arg.size = MinSize - 1
    /\ call.arg.atom /\ call.arg.tors
    /\ call.ret = FALSE

\* C16: best score.  For a valid docking output the validator returns one of
\* the scores of the file's result lines, and none of them is lower: the
\* numeric minimum, whatever the order of the lines.
C16_BestIsMinimum ==
    (call.fn = "vina_pose_is_valid" /\ call.ret.ok)
    => LET sc == call.arg.scores
       IN /\ \E i \in 1..Len(sc) : call.ret.best = << sc[i] >>
          /\ \A i \in 1..Len(sc) : call.ret.best[1] <= sc[i]

\* C16 witness: a valid pose whose lowest score is not on its first result
\* line has been judged
C16_Witness ==
    /\ call.fn = "vina_pose_is_valid" /\ call.ret.ok
    /\ Len(call.arg.scores) >= 2
    /\ call.ret.best[1] < call.arg.scores[1]

\* C14: manifest round trip.  Loading a missing file gives the empty
\* mapping; once a run has saved its manifest, loading the file gives back
\* the record of every identifier of that manifest, and saving what was
\* loaded gives the same file again.
C14_RoundTrip ==
    /\ ~manifestFile.exists => load_manifest(manifestFile) = EmptyMap
    /\ (pc = "end" /\ manifestFile = FullTable(manifest))
       => /\ \A k \in DOMAIN manifest :
               /\ k \in DOMAIN load_manifest(manifestFile)
               /\ load_manifest(manifestFile)[k] = manifest[k]
          /\ FullTable(load_manifest(manifestFile)) = manifestFile

\* C17: lost update under concurrent runs.  When a docking process is the
\* last to save, manifest.csv is its own table, and the ligand-preparation
\* status of every row is the one of the snapshot it loaded at its start,
\* whatever a concurrent Module 3 process saved in between.
C17_LaterSaveIsSnapshot ==
    (/\ pc = "end" /\ stage \in Docking
     /\ peer.pc = "done"
     /\ manifestFile = lastSaved)
    => /\ manifestFile = FullTable(manifest)
       /\ \A k \in DOMAIN manifest :
            manifest[k].pdbqt_status = RecGet(loaded, k).pdbqt_status

\* C17 witness: the Module 3 process saved a DONE record that the docking
\* process had not loaded; the docking process saved afterwards, and no row
\* of manifest.csv carries that status any more
C17_Witness ==
    /\ pc = "end" /\ stage \in Docking
    /\ peer.pc = "done" /\ peer.saved.exists
    /\ manifestFile = lastSaved
    /\ \E i \in 1..Len(peer.saved.rows) :
         /\ peer.saved.rows[i].pdbqt_status = "DONE"
         /\ RecGet(loaded, peer.saved.rows[i].id).pdbqt_status = ""
    /\ \A j \in 1..Len(manifestFile.rows) : manifestFile.rows[j].pdbqt_status = ""

\* the stages an invocation selects, and those among them it is to run
Selected(o) == { i \in StageIdx : (o.only = {} \/ i \in o.only) /\ i \notin o.skip }

ToRun(o) ==
    { i \in Selected(o) : i \in o.modules /\ (o.fresh \/ ~o.resume \/ i \notin o.ckpt0) }

\* the stages an invocation has executed
Executed(o) == { o.executed[j] : j \in 1..Len(o.executed) }

\* C18 as stated: an invocation (not a --list one) with --resume and without --fresh has run,
\* when it exits, every selected stage with a module file and without a
\* checkpoint, and no other stage; an invocation with --fresh has run every
\* selected stage with a module file.
C18_ResumeFreshAsStated ==
    (orch.pc = "exited" /\ ~orch.list /\ (orch.resume \/ orch.fresh))
    => Executed(orch) = ToRun(orch)

\* C18 amended: an invocation with --resume or --fresh has run, when it
\* exits, the stages it is to run up to and including the first that exited
\* non-zero, in index order, and no other stage.
C18_ResumeFreshUntilFailure ==
    (orch.pc = "exited" /\ ~orch.list /\ (orch.resume \/ orch.fresh))
    => /\ Executed(orch) =
            { i \in ToRun(orch) : orch.failedAt = 0 \/ i <= orch.failedAt }
       /\ \A j \in 1..(Len(orch.executed) - 1) : orch.executed[j] < orch.executed[j + 1]

\* C18 witness: an invocation with --resume and --fresh has exited after
\* running again a stage that had a checkpoint, a later stage it was to run
\* having failed
C18_Witness ==
    /\ orch.pc = "exited"
    /\ orch.resume /\ orch.fresh /\ ~orch.list
    /\ orch.failedAt # 0
    /\ \E i \in orch.ckpt0 : i \in Executed(orch) /\ i < orch.failedAt

\* the candidate under examination exited 0 and left a valid temporary file
CandidateSucceeded == proc.rc = 0 /\ pdbqt_is_valid(pdbqtTmp[Item.id])

\* C19: candidate order in run_meeko.  The first candidate launched is
\* candidate 1; the invoker moves from a candidate only to the next one, and
\* only when the current one was not found or did not succeed, leaving the
\* item's record and final file as they were; when the candidate examined
\* exited 0 with a valid temporary file, that file becomes the final file,
\* the item is recorded DONE and no further candidate is launched; and an
\* item is recorded DONE by the invoker in no other case.
C19_CandidateOrder ==
    [][ (stage = "m3" /\ stage' = "m3")
        => /\ (pc = "loop" /\ pc' = "exec") => cand' = 1
           /\ (pc \in { "exec", "exec2", "post" } /\ cand' # cand /\ pc' = "exec")
              => /\ cand' = cand + 1
                 /\ pc = "exec" \/ (pc = "post" /\ ~CandidateSucceeded)
                 /\ manifest' = manifest
                 /\ pdbqtFile' = pdbqtFile
           /\ (pc = "post" /\ CandidateSucceeded)
              => /\ pc' = "loop" /\ cand' = 0
                 /\ pdbqtFile'[Item.id] = pdbqtTmp[Item.id]
                 /\ ~pdbqtTmp'[Item.id].exists
                 /\ manifest'[Item.id].pdbqt_status = "DONE"
                 /\ manifest'[Item.id].pdbqt_reason = "OK"
           /\ (pc \in { "exec", "post" } /\ pc' = "loop"
               /\ ~(pc = "post" /\ CandidateSucceeded))
              => /\ cand = NCandidates
                 /\ manifest'[Item.id].pdbqt_status = "FAILED" ]_vars

\* C19 witness: the primary command did not succeed, the first fallback
\* exited 0 with a valid file, which was published, and the item is DONE
C19_Witness ==
    /\ stage = "m3" /\ pc = "loop" /\ idx = 2
    /\ logs[1].meeko = CmdLog(2, 0)
    /\ pdbqt_is_valid(pdbqtFile[1])
    /\ ~pdbqtTmp[1].exists
    /\ 1 \in DOMAIN manifest /\ manifest[1].pdbqt_status = "DONE"

\* run_meeko has returned failure for the (single) item of this run
Exhausted ==
    /\ stage = "m3" /\ pc = "loop" /\ idx = 2 /\ 1 \in invoked
    /\ 1 \in DOMAIN manifest /\ manifest[1].pdbqt_status = "FAILED"

\* C20: exhaustion of the candidates.  When run_meeko has returned failure,
\* the reason is the synthetic one, neither the temporary nor the final file
\* exists, and the item's log exists and holds the command line of a
\* candidate that was launched.
C20_Exhaustion ==
    Exhausted
    => /\ manifest[1].pdbqt_reason = "All Meeko attempts failed"
       /\ ~pdbqtTmp[1].exists
       /\ ~pdbqtFile[1].exists
       /\ logs[1].meeko.kind = "cmd"
       /\ logs[1].meeko.cand \in 1..NCandidates

\* C21: distinct invalid-output failure.  When the docking tool exited 0 and
\* its temporary pose does not validate, the item is recorded FAILED with
\* the reason "Pose written but invalid"; when it exited non-zero, the item
\* is recorded FAILED with another reason.
C21_InvalidOutputReason ==
    [][ (stage \in Docking /\ pc = "post" /\ finished' = finished + 1)
        => /\ (proc.rc = 0 /\ ~vina_pose_is_valid(poseTmp[Item.id]))
              => /\ manifest'[Item.id].vina_status = "FAILED"
                 /\ manifest'[Item.id].vina_reason = "Pose written but invalid"
           /\ proc.rc # 0
              => /\ manifest'[Item.id].vina_status = "FAILED"
                 /\ manifest'[Item.id].vina_reason # "Pose written but invalid" ]_vars

\* what C22's two statements share: HARD_STOP is set only when
\* STOP_REQUESTED is set; no flag is cleared while the process lives; after
\* the second interruption the record of the item being docked is still
\* updated, no further item is begun, and the process reaches its end with
\* the manifest and the summary flushed
C22_Common ==
    /\ stage \in Docking
    /\ (~HARD_STOP /\ HARD_STOP') => STOP_REQUESTED
    /\ (pc' # "idle")
       => /\ STOP_REQUESTED => STOP_REQUESTED'
          /\ HARD_STOP => HARD_STOP'
    /\ (HARD_STOP /\ pc = "post" /\ pc' \notin { "post", "idle" })
       => /\ Item.id \in DOMAIN manifest'
          /\ manifest'[Item.id].updated_at = now_iso
          /\ finished' = finished + 1
    /\ HARD_STOP => started' = started
    /\ (HARD_STOP' /\ pc' = "end")
       => /\ manifestFile' = FullTable(manifest')
          /\ summaryFile'.rows = summary_rows(manifest')

C23_AscendingIdentifiers ==
    call.fn = "sorted_glob"
    => \A i \in 1..Len(call.ret), j \in 1..Len(call.ret) :
         i < j => StrLess(call.ret[i], call.ret[j])

\* C24: invoker side effects.  A step of a tool invocation for the current
\* item (cleaning stale outputs, the tool writing and exiting, publishing or
\* removing the temporary file) leaves alone every file of another
\* identifier, manifest.csv, summary.csv and leaderboard.csv, and the files
\* of the other stage; before the invoker returns the in-memory manifest is
\* unchanged, and on return only the record of the current item is written.
C24_InvokerSideEffects ==
    [][ (/\ stage # "" /\ idx \in 1..Len(work) /\ pc' # "idle"
         /\ pc \in { "exec", "exec2", "post" } \/ (pc = "loop" /\ pc' = "exec"))
        => LET X == work[idx].id
           IN /\ \A k \in ligset \ { X } :
                   /\ pdbqtFile'[k] = pdbqtFile[k] /\ pdbqtTmp'[k] = pdbqtTmp[k]
                   /\ poseFile'[k] = poseFile[k] /\ poseTmp'[k] = poseTmp[k]
                   /\ logs'[k] = logs[k]
              /\ manifestFile' = manifestFile
              /\ summaryFile' = summaryFile /\ leaderFile' = leaderFile
              /\ stage = "m3" => (poseFile' = poseFile /\ poseTmp' = poseTmp)
              /\ stage \in Docking => (pdbqtFile' = pdbqtFile /\ pdbqtTmp' = pdbqtTmp)
              /\ pc' \in { "exec", "exec2", "post" } => manifest' = manifest
              /\ \A k \in DOMAIN manifest \ { X } :
                   k \in DOMAIN manifest' /\ manifest'[k] = manifest[k] ]_vars

\* C24 witness: the tool has been run for the second item and has left a
\* temporary file, while the first item has its final file and its log
C24_Witness ==
    /\ stage \in Docking /\ pc = "post" /\ idx = 2
    /\ poseTmp[work[2].id].exists
    /\ poseFile[work[1].id].exists
    /\ logs[work[1].id][LogField(stage)].kind = "cmd"

\* C25: derived views are pure projections.  When a docking process has
\* written the views after a checkpoint or at its end, summary.csv has one
\* row per manifest record with a non-empty score, in key order, and no
\* other row, whatever it held before; and leaderboard.csv has the same
\* (id, inchikey, score, pose path) rows, as many as the summary.
C25_ViewsAreProjections ==
    (/\ stage \in Docking
     /\ pc = "end" \/ (pc = "loop" /\ idx > 1 /\ (idx - 1) % CheckpointEvery = 0))
    => LET scored == { k \in DOMAIN manifest : manifest[k].vina_score # <<>> }
           core(r) == << r.id, r.inchikey, r.vina_score, r.pose_path >>
           S == summaryFile.rows
           L == leaderFile.rows
       IN /\ summaryFile.exists /\ leaderFile.exists
          /\ Len(S) = Cardinality(scored)
          /\ \A i \in 1..Len(S) :
               LET m == manifest[KeyAt(scored, i)]
               IN S[i] = [ id |-> m.id, inchikey |-> m.inchikey,
                           vina_score |-> m.vina_score, pose_path |-> m.vina_pose,
                           created_at |-> m.updated_at ]
          /\ Len(L) = Len(S)
          /\ { core(L[i]) : i \in 1..Len(L) } = { core(S[i]) : i \in 1..Len(S) }

\* C25 witness: the second docking process of a project has ended; one of
\* its two records keeps a score though its status is FAILED, and the
\* summary lists both
C25_Witness ==
    /\ stage \in Docking /\ pc = "end" /\ runs = 2
    /\ Len(summaryFile.rows) = 2
    /\ \E k \in DOMAIN manifest :
         manifest[k].vina_status = "FAILED" /\ manifest[k].vina_score # <<>>

\* C26: work discovery resolution.  For every identifier k, discover_sdf
\* returns the path the manifest records for k when that path is non-empty
\* and exists, the file k.sdf of the input directory or not; otherwise the
\* file of the input directory whose stem is k; and no entry for k when
\* there is neither.
C26_DiscoveryResolution ==
    call.fn = "discover_sdf"
    => LET man == call.arg.manifest
       IN \A k \in 1..NKeys :
            IF k \in DOMAIN man /\ man[k].sdf_path # 0
               /\ man[k].sdf_path \in call.arg.present
            THEN k \in DOMAIN call.ret /\ call.ret[k] = man[k].sdf_path
            ELSE IF k \in call.arg.dir
                 THEN k \in DOMAIN call.ret /\ call.ret[k] = k
                 ELSE k \notin DOMAIN call.ret

\* C26 witness: the manifest records for identifier 1 an existing path
\* elsewhere, the input directory holds 1.sdf too, and the recorded path is
\* returned; identifier 2 is resolved from the directory, and identifier 3,
\* whose recorded path does not exist, is absent
C26_Witness ==
    /\ call.fn = "discover_sdf"
    /\ DOMAIN call.arg.manifest = { 1, 3 }
    /\ call.arg.manifest[1].sdf_path = Elsewhere
    /\ call.arg.manifest[3].sdf_path = 3
    /\ call.arg.dir = { 1, 2 }
    /\ call.arg.present = { 1, 2, Elsewhere }
    /\ call.ret = (1 :> Elsewhere) @@ (2 :> 2)

\* C27: thread clamp.  Whatever the configuration holds for "thread", the
\* value passed to the GPU docking tool is at least 1000; a configured
\* number of 1000 or more is passed unchanged; an absent or malformed value
\* gives 10000.
C27_ThreadClamp ==
    call.fn = "gcfg_thread"
    => /\ call.ret >= 1000
       /\ ("thread" \in DOMAIN call.arg /\ call.arg["thread"].int
           /\ call.arg["thread"].val >= 1000)
          => call.ret = call.arg["thread"].val
       /\ ("thread" \notin DOMAIN call.arg \/ ~call.arg["thread"].int)
          => call.ret = 10000

\* C27 witness: a configured thread count of 999 is passed as 1000
C27_Witness ==
    /\ call.fn = "gcfg_thread"
    /\ "thread" \in DOMAIN call.arg
    /\ call.arg["thread"] = IntText(999)
    /\ call.ret = 1000

\* C28: missing configuration sources.  A stage process started while its
\* configuration file does not exist (run.yml for Module 3, VinaConfig.txt
\* for the docking stages), and with nothing else in the way, is not aborted:
\* it enters its loop.
C28_MissingConfigIsEmpty ==
    [][ (/\ pc = "idle" /\ runs' = runs + 1
         /\ ~FatalCondition(plan[runs + 1])
         /\ IF plan[runs + 1] = "m3" THEN yamlCfg = 0 ELSE vinaCfg = 0)
        => /\ pc' = "loop"
           /\ stage' = plan[runs + 1]
           /\ exitKind' # "fatal" ]_vars

\* C29: score implies DONE.  In the manifest of a docking process and in
\* every row of manifest.csv, a non-empty vina_score goes with the docking
\* status DONE; and when a docking process has ended, the pose file of
\* every identifier it processed whose record has a score exists.
C29_ScoreImpliesDone ==
    /\ \A k \in DOMAIN manifest :
         manifest[k].vina_score # <<>> => manifest[k].vina_status = "DONE"
    /\ \A i \in 1..Len(manifestFile.rows) :
         manifestFile.rows[i].vina_score # <<>> => manifestFile.rows[i].vina_status = "DONE"
    /\ (stage \in Docking /\ pc = "end")
       => \A i \in 1..finished :
            (/\ work[i].id \in DOMAIN manifest
             /\ manifest[work[i].id].vina_score # <<>>) => poseFile[work[i].id].exists

\* C30: cross-stage non-interference.  A step of a Module 3 process leaves
\* alone, in the record of an item that a docking stage has processed, the
\* fields the docking stage reads for its skip decision: config_hash,
\* receptor_sha1 and vina_status.
C30_PreparationKeepsDockingFields ==
    [][ (/\ stage = "m3" /\ stage' = "m3"
         /\ idx \in 1..Len(work)
         /\ work[idx].id \in DOMAIN manifest
         /\ manifest[work[idx].id].vina_status # "")
        => LET old == manifest[work[idx].id]
               new == manifest'[work[idx].id]
           IN /\ new.config_hash = old.config_hash
              /\ new.receptor_sha1 = old.receptor_sha1
              /\ new.vina_status = old.vina_status ]_vars

\* ------------------------------------------------------------------- C31
\* C31: in run_meeko, the file moved to the final output path was written by
\* the candidate whose result is accepted (the one reported as successful): a
\* temporary file left by an earlier candidate that exited non-zero is never
\* published for a later candidate that exits 0 without writing any output.
C31_PublishedProvenance ==
    [][ (stage = "m3" /\ pc = "post" /\ pdbqtFile'[Item.id] # pdbqtFile[Item.id])
        => /\ pdbqtFile'[Item.id] = pdbqtTmp[Item.id]
           /\ proc.rc = 0
           /\ proc.wrote ]_vars

C33_CheckpointValidity ==
    orch.pc \in { "idle", "loop", "exited" }
    => /\ \A i \in orch.ckpt : orch.lastrc[i] = 0
       /\ (orch.pc = "loop" /\ orch.idx \in Selected(orch) \cap orch.modules
                            /\ ResumeSkips(orch, orch.idx))
             => orch.lastrc[orch.idx] # 1

\* ------------------------------------------------------------------- C34
\* C34: orchestrator stage sequencing.  Within one invocation the stages
\* are executed in increasing index order, one at a time (a stage runs only
\* after every stage executed before it has exited); a checkpoint is written
\* only by the step in which that stage exits with status 0; and once a
\* stage has exited non-zero, it is the last stage executed and the
\* orchestrator has exited with status 1.
C34_StageSequencing ==
    /\ [] (orch.pc # "none"
            => /\ \A j \in 1..(Len(orch.executed) - 1) :
                     orch.executed[j] < orch.executed[j + 1]
               /\ orch.pc = "run"
                     => \A j \in 1..Len(orch.executed) : orch.executed[j] < orch.idx
               /\ orch.failedAt # 0
                     => /\ orch.pc = "exited" /\ orch.status = 1
                        /\ orch.executed[Len(orch.executed)] = orch.failedAt
               /\ orch.status = 1 => orch.failedAt # 0)
    /\ [][ (orch.pc # "none" /\ orch'.ckpt \ orch.ckpt # {})
            => /\ orch.pc = "run"
               /\ orch'.ckpt \ orch.ckpt = { orch.idx }
               /\ orch'.lastrc[orch.idx] = 0
               /\ orch'.executed = Append(orch.executed, orch.idx) ]_vars

\* C34 witness: an invocation has exited with status 1 after a stage failed
\* that followed a stage whose checkpoint this invocation wrote, a later
\* stage it was to run being left unexecuted
C34_Witness ==
    /\ orch.pc = "exited" /\ orch.status = 1
    /\ Len(orch.executed) >= 2
    /\ orch.executed[1] \in orch.ckpt \ orch.ckpt0
    /\ \E i \in ToRun(orch) : i > orch.failedAt /\ i \notin Executed(orch)

====
